---- MODULE Spec2Model ----
(***************************************************************************)
(* State-machine model of log_server.py: the debounced finalize timer, the *)
(* device-name list and the per-device message store.                      *)
(*                                                                         *)
(* Request handlers run on worker threads (the development server handles  *)
(* each request on its own thread); a handler is cut into steps at every   *)
(* access to the module-level globals, so that the handlers, the timer     *)
(* threads and the finalizer interleave as the interpreter lets them.      *)
(* Strings that are trimmed are sequences of characters.                   *)
(***************************************************************************)
EXTENDS Integers, Sequences, FiniteSets, TLC

(* ------------------------------ bounds -------------------------------- *)

\* state-changing requests (POST /log, POST /log_deviceNames, DELETE /logs)
\* accepted over one run of the server
MaxRequests == 2

(* ------------------------- program constants -------------------------- *)

FINALIZE_DELAY == 3

(* ------------------------------ strings ------------------------------- *)

Foo == <<"f">>
Blank == <<" ">>
BarPadded == <<" ", "b", " ">>
Bar == <<"b">>
EmptyStr == << >>
\* a batch element that is not a string (a JSON number): it has no strip()
NotAString == <<"#5">>

IsSpace(c) == c = " "

RECURSIVE lstrip(_)
lstrip(s) == IF s # << >> /\ IsSpace(Head(s)) THEN lstrip(Tail(s)) ELSE s

RECURSIVE rstrip(_)
rstrip(s) ==
    IF s # << >> /\ IsSpace(s[Len(s)]) THEN rstrip(SubSeq(s, 1, Len(s) - 1)) ELSE s

\* str.strip()
strip(s) == rstrip(lstrip(s))

(* ------------------------------ inputs -------------------------------- *)

Workers == {"w1", "w2"}
Timers == 1..MaxRequests

\* JSON null / Python None, as returned by extract_device_name_from_message
None == "<None>"

\* the empty JSON object {}: an empty request body, an empty payload
EmptyDict == [k \in {} |-> 0]

\* bodies of POST /log_deviceNames
NameBatches ==
    { <<Foo, Blank, BarPadded, EmptyStr>>, <<Blank>>, <<Foo>>, <<Foo, NotAString>> }
NameBodies == { [data |-> b] : b \in NameBatches } \cup {EmptyDict}
\* the bodies sent when requests overlap
FewNameBodies == { [data |-> <<Blank, Foo>>], [data |-> <<Blank>>] }

\* payloads (the "data" member) of POST /log
Payloads ==
    { [pv |-> "A", obj |-> "B"],
      [obj |-> "B"],
      [update |-> [pv |-> "A", obj |-> "B"]],
      [update |-> [obj |-> "B"]],
      [obj |-> "B", update |-> [pv |-> "A"]],
      [pv |-> "", obj |-> "B"],
      [value |-> "5"] }
LogBodies ==
    { [label |-> "L", sessionId |-> "s", data |-> p] : p \in Payloads }
        \cup { [data |-> [pv |-> "A", obj |-> "B"]], [label |-> "L"], EmptyDict }
\* the bodies sent when requests overlap
FewLogBodies ==
    { [label |-> "L", sessionId |-> "s", data |-> p] :
        p \in { [pv |-> "A", obj |-> "B"], [obj |-> "B"] } }

\* dict.get(key, default)
get(d, key, default) == IF key \in DOMAIN d THEN d[key] ELSE default

\* Python truthiness of a device name
Truthy(v) == v # None /\ v # ""

(* ------------------- deviceMessages: an ordered dict ------------------ *)
\* The dict is a sequence of entries [key, msgs] in insertion order.

Keys(dm) == { dm[i].key : i \in 1..Len(dm) }
HasKey(dm, k) == k \in Keys(dm)
IndexOf(dm, k) == CHOOSE i \in 1..Len(dm) : dm[i].key = k
Lookup(dm, k) == dm[IndexOf(dm, k)].msgs

\* dm[k] = v
SetItem(dm, k, v) ==
    IF HasKey(dm, k)
    THEN [dm EXCEPT ![IndexOf(dm, k)].msgs = v]
    ELSE Append(dm, [key |-> k, msgs |-> v])

(* -------------------------------- state ------------------------------- *)

VARIABLES
    deviceNamesList,    \* the global list of admitted device names
    deviceMessages,     \* the global dict: device name -> list of messages
    finalize_timer,     \* the global timer slot: 0 is None, else a timer
    logFile,            \* LOG_FILE: whether it exists, and its blocks
    timer,              \* every threading.Timer created so far
    fin,                \* locals of finalize_device_names_delayed, per timer thread
    req,                \* locals and position of the handler on each worker
    nreq,               \* state-changing requests accepted so far
    hTimer,             \* history, per timer: how the list was when it was
                        \* armed, and when cancel() was called on it
    hAccepted,          \* history: messages appended per device since reset
    hOk,                \* history: POST /log answered 200, per device
    hCleared,           \* history: a DELETE /logs has begun
    hQuiet,             \* history: a DELETE /logs has begun with no batch in
                        \* progress, and no batch has arrived since
    hFail               \* history: the last failed log write, and the store
                        \* as it was then; forgotten at every step of a reset

globals == <<deviceNamesList, deviceMessages, finalize_timer, logFile>>
history == <<hTimer, hAccepted, hOk, hCleared, hQuiet, hFail>>
vars == <<deviceNamesList, deviceMessages, finalize_timer, logFile, timer, fin,
          req, nreq, hTimer, hAccepted, hOk, hCleared, hQuiet, hFail>>

Devices == {"A", "B"}

\* a Timer: its thread's state, its finished event, its interval and the
\* time it has waited since start()
NoTimer == [state |-> "unborn", finished |-> FALSE, interval |-> 0, waited |-> 0]
\* a Timer whose thread has ended
Dead(finished) == [state |-> "done", finished |-> finished, interval |-> 0, waited |-> 0]
\* no log write has failed since the last step of a reset
NoFail == [valid |-> FALSE, by |-> 0, names |-> << >>, messages |-> << >>, blocks |-> 0]
\* atFire is history: the store as it was when the timer fired
NoFin ==
    [pc |-> "none", count |-> 0, names |-> << >>, size |-> 0, pos |-> 0,
     out |-> << >>, detached |-> FALSE, old |-> << >>,
     atFire |-> [names |-> << >>, messages |-> << >>, quiet |-> FALSE,
                 fail |-> NoFail]]
Idle ==
    [pc |-> "idle", kind |-> "none", body |-> EmptyDict, i |-> 0,
     device_name |-> None, message_obj |-> EmptyDict, status |-> 0, result |-> 0,
     preNames |-> << >>, preMsgs |-> << >>,
     again |-> FALSE, removed |-> FALSE, disturbed |-> FALSE]

Init ==
    /\ deviceNamesList = << >>
    /\ deviceMessages = << >>
    /\ finalize_timer = 0
    /\ logFile = [exists |-> FALSE, blocks |-> << >>]
    /\ timer = [t \in Timers |-> NoTimer]
    /\ fin = [t \in Timers |-> NoFin]
    /\ req = [w \in Workers |-> Idle]
    /\ nreq = 0
    /\ hTimer = [t \in Timers |-> [armed |-> "no", cancelled |-> "no"]]
    /\ hAccepted = [d \in Devices |-> << >>]
    /\ hOk = [d \in Devices |-> 0]
    /\ hCleared = FALSE
    /\ hQuiet = FALSE
    /\ hFail = NoFail

\* No handler is about to send its response. A handler that has built its
\* response sends it at once (sending shares no state with any other thread),
\* so every other step waits for it.
Quiet == \A w \in Workers : req[w].pc # "respond"

\* the handler on worker w has built its response
Respond(r, status, result) ==
    [r EXCEPT !.pc = "respond", !.status = status, !.result = result]

(* ----------------------- POST /log_deviceNames ------------------------ *)

\* mutant: an empty body is not rejected
rejected_never(data) == FALSE

\* lines 97 and 145: if not data
rejected(data) == data = EmptyDict

\* mutant: the handler does not cancel the timer it replaces
cancel_nothing(tm, t) == tm

\* threading.Timer.cancel(): sets the timer's finished event
cancel(tm, t) == [tm EXCEPT ![t].finished = TRUE]

\* whether timer t still has to wait when cancel() is called on it
Early(t) ==
    \/ timer[t].state = "created"
    \/ timer[t].state = "waiting" /\ timer[t].waited < timer[t].interval

\* lines 143-150: parse the body, reject an empty one, cancel the timer in the slot
write_deviceName_log_begin(w, body) ==
    /\ Quiet
    /\ req[w].pc = "idle"
    /\ IF rejected(body)
       THEN /\ req' = [req EXCEPT ![w] =
                         Respond([Idle EXCEPT !.kind = "names", !.body = body,
                                              !.preNames = deviceNamesList],
                                 400, 0)]
            /\ UNCHANGED <<timer, nreq, hTimer, hQuiet>>
       ELSE /\ nreq < MaxRequests
            /\ nreq' = nreq + 1
            /\ hQuiet' = FALSE
            /\ req' = [req EXCEPT ![w] =
                         [Idle EXCEPT !.kind = "names", !.body = body, !.i = 1,
                                      !.preNames = deviceNamesList,
                                      !.pc = IF Len(get(body, "data", << >>)) = 0
                                             THEN "names_arm" ELSE "names_loop"]]
            /\ IF finalize_timer # 0
               THEN /\ timer' = cancel(timer, finalize_timer)
                    /\ hTimer' =
                         [hTimer EXCEPT ![finalize_timer].cancelled =
                            IF @ # "no" THEN @
                            ELSE IF Early(finalize_timer) THEN "early" ELSE "late"]
               ELSE UNCHANGED <<timer, hTimer>>
    /\ UNCHANGED <<globals, fin, hAccepted, hOk, hCleared, hFail>>

\* mutant: the name is appended as received, not trimmed
admit_untrimmed(names, device_name) ==
    IF device_name # EmptyStr /\ strip(device_name) # EmptyStr
    THEN Append(names, device_name)
    ELSE names

\* line 156-157: what one element of the batch adds to the list
admit(names, device_name) ==
    IF device_name # EmptyStr /\ strip(device_name) # EmptyStr
    THEN Append(names, strip(device_name))
    ELSE names

\* lines 154-157: one iteration of the loop over the batch
write_deviceName_log_loop(w) ==
    /\ Quiet
    /\ req[w].pc = "names_loop"
    /\ LET batch == get(req[w].body, "data", << >>)
           device_name == batch[req[w].i]
       IN IF device_name = NotAString
          THEN \* a number is truthy and has no strip(): AttributeError, line 168
               /\ req' = [req EXCEPT ![w] = Respond(@, 500, 0)]
               /\ UNCHANGED deviceNamesList
          ELSE /\ deviceNamesList' = admit(deviceNamesList, device_name)
               /\ req' = [req EXCEPT ![w].i = @ + 1,
                                     ![w].pc = IF req[w].i = Len(batch)
                                               THEN "names_arm" ELSE "names_loop"]
    /\ UNCHANGED <<deviceMessages, finalize_timer, logFile, timer, fin, nreq, history>>

\* mutant: the timer is armed with a shorter delay
TimerShort(interval) ==
    [state |-> "created", finished |-> FALSE, interval |-> interval - 1, waited |-> 0]

\* threading.Timer(interval, finalize_device_names_delayed)
Timer(interval) ==
    [state |-> "created", finished |-> FALSE, interval |-> interval, waited |-> 0]

NewTimer == CHOOSE t \in Timers : timer[t].state = "unborn" /\
                \A u \in Timers : u < t => timer[u].state # "unborn"

\* line 163: create a timer and store it in the slot
write_deviceName_log_arm(w) ==
    /\ Quiet
    /\ req[w].pc = "names_arm"
    /\ timer' = [timer EXCEPT ![NewTimer] = Timer(FINALIZE_DELAY)]
    /\ hTimer' = [hTimer EXCEPT ![NewTimer].armed =
                     IF deviceNamesList = << >> THEN "empty" ELSE "nonempty"]
    /\ finalize_timer' = NewTimer
    /\ req' = [req EXCEPT ![w].pc = "names_start"]
    /\ UNCHANGED <<deviceNamesList, deviceMessages, logFile, fin, nreq, hAccepted, hOk,
                   hCleared, hQuiet, hFail>>

\* lines 164-166: start the timer now in the slot, answer with the count
write_deviceName_log_start(w) ==
    /\ Quiet
    /\ req[w].pc = "names_start"
    /\ IF timer[finalize_timer].state = "created"
       THEN /\ timer' = [timer EXCEPT ![finalize_timer].state = "waiting"]
            /\ req' = [req EXCEPT ![w] = Respond(@, 200, Len(deviceNamesList))]
       ELSE \* Thread.start() on a started thread: RuntimeError, line 168
            /\ req' = [req EXCEPT ![w] = Respond(@, 500, 0)]
            /\ UNCHANGED timer
    /\ UNCHANGED <<globals, fin, nreq, history>>

(* ------------------------------ POST /log ----------------------------- *)

\* mutant: obj is looked up before pv
extract_obj_first(data) ==
    IF "obj" \in DOMAIN data THEN data["obj"]
    ELSE IF "pv" \in DOMAIN data THEN data["pv"]
    ELSE IF "update" \in DOMAIN data /\ "pv" \in DOMAIN data["update"]
         THEN data["update"]["pv"]
    ELSE IF "update" \in DOMAIN data /\ "obj" \in DOMAIN data["update"]
         THEN data["update"]["obj"]
    ELSE None

\* lines 27-38
extract_device_name_from_message(data) ==
    IF "pv" \in DOMAIN data THEN data["pv"]
    ELSE IF "obj" \in DOMAIN data THEN data["obj"]
    ELSE IF "update" \in DOMAIN data /\ "pv" \in DOMAIN data["update"]
         THEN data["update"]["pv"]
    ELSE IF "update" \in DOMAIN data /\ "obj" \in DOMAIN data["update"]
         THEN data["update"]["obj"]
    ELSE None

\* line 116: the test that decides whether the message is stored
found(device_name) == Truthy(device_name)

\* lines 117-122; the timestamp is the arrival number of the request
message(body, timestamp) ==
    [timestamp |-> timestamp,
     sessionId |-> get(body, "sessionId", "unknown"),
     data |-> get(body, "data", EmptyDict),
     label |-> get(body, "label", "UNKNOWN")]

\* lines 95-122: parse the body, reject an empty one, derive the device name
write_log_begin(w, body) ==
    /\ Quiet
    /\ req[w].pc = "idle"
    /\ IF rejected(body)
       THEN /\ req' = [req EXCEPT ![w] =
                         Respond([Idle EXCEPT !.kind = "log", !.body = body,
                                              !.preMsgs = deviceMessages],
                                 400, 0)]
            /\ UNCHANGED nreq
       ELSE /\ nreq < MaxRequests
            /\ nreq' = nreq + 1
            /\ LET device_name ==
                      extract_device_name_from_message(get(body, "data", EmptyDict))
                   r == [Idle EXCEPT !.kind = "log", !.body = body,
                                     !.preMsgs = deviceMessages,
                                     !.device_name = device_name]
               IN req' = [req EXCEPT ![w] =
                            IF found(device_name)
                            THEN [r EXCEPT !.pc = "log_check",
                                           !.message_obj = message(body, nreq + 1)]
                            ELSE Respond(r, 200, 0)]
    /\ UNCHANGED <<globals, timer, fin, history>>

\* line 124: is the device name a key already
write_log_check(w) ==
    /\ Quiet
    /\ req[w].pc = "log_check"
    /\ req' = [req EXCEPT ![w].pc = IF HasKey(deviceMessages, req[w].device_name)
                                    THEN "log_append" ELSE "log_create"]
    /\ UNCHANGED <<globals, timer, fin, nreq, history>>

\* line 125: deviceMessages[device_name] = []
write_log_create(w) ==
    /\ Quiet
    /\ req[w].pc = "log_create"
    /\ deviceMessages' = SetItem(deviceMessages, req[w].device_name, << >>)
    /\ req' = [req EXCEPT ![w].pc = "log_append"]
    /\ UNCHANGED <<deviceNamesList, finalize_timer, logFile, timer, fin, nreq, history>>

\* line 126: the list a message is appended to, and the list after it
appended(msgs, message_obj) == Append(msgs, message_obj)

\* lines 126-132: deviceMessages[device_name].append(message_obj), answer 200
write_log_append(w) ==
    /\ Quiet
    /\ req[w].pc = "log_append"
    /\ LET d == req[w].device_name
       IN IF HasKey(deviceMessages, d)
          THEN /\ deviceMessages' =
                    SetItem(deviceMessages, d,
                            appended(Lookup(deviceMessages, d), req[w].message_obj))
               /\ hAccepted' = [hAccepted EXCEPT ![d] = Append(@, req[w].message_obj)]
               /\ req' = [req EXCEPT ![w] = Respond(@, 200, 0)]
          ELSE \* the dict was replaced meanwhile: KeyError, line 134
               /\ req' = [req EXCEPT ![w] = Respond(@, 500, 0)]
               /\ UNCHANGED <<deviceMessages, hAccepted>>
    /\ UNCHANGED <<deviceNamesList, finalize_timer, logFile, timer, fin, nreq,
                   hTimer, hOk, hCleared, hQuiet, hFail>>

(* ----------------------------- DELETE /logs --------------------------- *)

\* mutant: the file is removed without asking whether it exists
remove_unchecked(exists) == "clear_remove"

\* lines 189-190: os.remove runs only if os.path.exists(LOG_FILE)
remove_if_exists(exists) == IF exists THEN "clear_remove" ELSE "clear_names"

\* line 189: os.path.exists(LOG_FILE)
clear_logs_begin(w) ==
    /\ Quiet
    /\ req[w].pc = "idle"
    /\ nreq < MaxRequests
    /\ nreq' = nreq + 1
    /\ hCleared' = TRUE
    /\ hQuiet' = \A v \in Workers : req[v].kind # "names"
    /\ hFail' = NoFail
    /\ req' = [req EXCEPT ![w] =
                 [Idle EXCEPT !.kind = "clear",
                              !.preNames = deviceNamesList,
                              !.preMsgs = deviceMessages,
                              !.again = /\ hCleared
                                        /\ ~logFile.exists
                                        /\ deviceNamesList = << >>
                                        /\ deviceMessages = << >>,
                              !.pc = remove_if_exists(logFile.exists)]]
    /\ UNCHANGED <<globals, timer, fin, hTimer, hAccepted, hOk>>

\* line 190: os.remove(LOG_FILE)
clear_logs_remove(w) ==
    /\ Quiet
    /\ req[w].pc = "clear_remove"
    /\ IF logFile.exists
       THEN /\ logFile' = [exists |-> FALSE, blocks |-> << >>]
            /\ req' = [req EXCEPT ![w].pc = "clear_names", ![w].removed = TRUE]
       ELSE \* another request removed it meanwhile: FileNotFoundError, line 195
            /\ req' = [req EXCEPT ![w] = Respond(@, 500, 0)]
            /\ UNCHANGED logFile
    /\ hFail' = NoFail
    /\ UNCHANGED <<deviceNamesList, deviceMessages, finalize_timer, timer, fin, nreq,
                   hTimer, hAccepted, hOk, hCleared, hQuiet>>

\* line 192: deviceNamesList = []
clear_logs_names(w) ==
    /\ Quiet
    /\ req[w].pc = "clear_names"
    /\ deviceNamesList' = << >>
    /\ hTimer' = [t \in Timers |->
                    IF hTimer[t].armed = "nonempty"
                    THEN [hTimer[t] EXCEPT !.armed = "reset"] ELSE hTimer[t]]
    /\ req' = [req EXCEPT ![w].pc = "clear_messages"]
    /\ hFail' = NoFail
    /\ UNCHANGED <<deviceMessages, finalize_timer, logFile, timer, fin, nreq, hAccepted,
                   hOk, hCleared, hQuiet>>

\* lines 193-194: deviceMessages = {}: the name is bound to a new dict, and a
\* finalizer that is iterating the old dict keeps the old dict
clear_logs_messages(w) ==
    /\ Quiet
    /\ req[w].pc = "clear_messages"
    /\ deviceMessages' = << >>
    /\ fin' = [t \in Timers |->
                 IF fin[t].pc = "next" /\ ~fin[t].detached
                 THEN [fin[t] EXCEPT !.detached = TRUE, !.old = deviceMessages]
                 ELSE fin[t]]
    /\ hAccepted' = [d \in Devices |-> << >>]
    /\ hOk' = [d \in Devices |-> 0]
    /\ req' = [req EXCEPT ![w] = Respond(@, 200, 0)]
    /\ hFail' = NoFail
    /\ UNCHANGED <<deviceNamesList, finalize_timer, logFile, timer, nreq,
                   hTimer, hCleared, hQuiet>>

(* ------------------------------ the reads ----------------------------- *)
\* A read handler changes nothing; its response is a function of the state
\* in which it runs.

\* lines 175-180: the body GET /logs answers with
get_logs_response ==
    [logs |-> IF logFile.exists THEN logFile.blocks ELSE <<"No logs found">>]

\* line 201: the body GET /deviceNames answers with
get_device_names_response ==
    [deviceNamesList |-> deviceNamesList, count |-> Len(deviceNamesList)]

\* line 206: the body GET /deviceMessages answers with
get_device_messages_response ==
    [deviceMessages |-> deviceMessages, deviceCount |-> Len(deviceMessages)]

\* lines 172-182, 198-210: GET /logs, /deviceNames, /deviceMessages, /health
read(w) ==
    /\ Quiet
    /\ req[w].pc = "idle"
    /\ UNCHANGED vars

\* the response has been sent: the worker is free again
respond(w) ==
    /\ req[w].pc = "respond"
    /\ req' = [req EXCEPT ![w] = Idle]
    /\ hOk' = IF req[w].kind = "log" /\ req[w].status = 200 /\ found(req[w].device_name)
              THEN [hOk EXCEPT ![req[w].device_name] = @ + 1]
              ELSE hOk
    /\ UNCHANGED <<globals, timer, fin, nreq, hTimer, hAccepted, hCleared, hQuiet, hFail>>

(* --------------------------- the timer threads ------------------------ *)

\* a timer that is started, not cancelled, and has not run its function yet
Pending(t) == timer[t].state = "waiting" /\ ~timer[t].finished

\* one unit of time passes: no pending timer is kept waiting beyond its delay
Tick ==
    /\ Quiet
    /\ \E t \in Timers : Pending(t)
    /\ \A t \in Timers : Pending(t) => timer[t].waited < timer[t].interval
    /\ timer' = [t \in Timers |->
                   IF timer[t].state = "waiting" /\ timer[t].waited < timer[t].interval
                   THEN [timer[t] EXCEPT !.waited = @ + 1] ELSE timer[t]]
    /\ UNCHANGED <<globals, fin, req, nreq, history>>

\* whether the timer thread calls its function when its wait ends
fires(t) == timer[t].waited >= timer[t].interval /\ ~timer[t].finished

\* line 163, Timer.run: the delay has elapsed and the timer was not cancelled:
\* the thread calls finalize_device_names_delayed
timer_fire(t) ==
    /\ Quiet
    /\ timer[t].state = "waiting"
    /\ fires(t)
    /\ timer' = [timer EXCEPT ![t].state = "running"]
    /\ fin' = [fin EXCEPT ![t] =
                 [NoFin EXCEPT !.pc = "guard",
                               !.atFire = [names |-> deviceNamesList,
                                           messages |-> deviceMessages,
                                           quiet |-> hQuiet, fail |-> hFail]]]
    /\ UNCHANGED <<globals, req, nreq, history>>

\* line 150, Timer.run: the wait of a cancelled timer ends at once and the
\* thread exits without calling the function
timer_cancelled(t) ==
    /\ Quiet
    /\ timer[t].state = "waiting"
    /\ timer[t].finished
    /\ timer' = [timer EXCEPT ![t] = Dead(TRUE)]
    /\ UNCHANGED <<globals, fin, req, nreq, history>>

(* ------------------- finalize_device_names_delayed --------------------- *)

\* the function has returned: Timer.run sets the finished event and the thread ends
Returned(t) == [timer EXCEPT ![t] = Dead(TRUE)]

\* mutant: a finalizer that raised is run again after another delay
Retried(t) == [timer EXCEPT ![t].state = "waiting", ![t].waited = 0]

\* the function has raised: the thread ends
Raised(t) == [timer EXCEPT ![t] = Dead(@.finished)]

\* the locals of the function are gone when it ends
Gone(pc) == [NoFin EXCEPT !.pc = pc]

\* line 43: whether the finalizer returns at once
nothing_to_finalize == Len(deviceNamesList) = 0

\* lines 43-44: the empty-list guard
finalize_guard(t) ==
    /\ Quiet
    /\ fin[t].pc = "guard"
    /\ IF nothing_to_finalize
       THEN /\ fin' = [fin EXCEPT ![t] = Gone("returned")]
            /\ timer' = Returned(t)
       ELSE /\ fin' = [fin EXCEPT ![t].pc = "count"]
            /\ UNCHANGED timer
    /\ UNCHANGED <<globals, req, nreq, history>>

\* line 52: Total entries: {len(deviceNamesList)}
finalize_count(t) ==
    /\ Quiet
    /\ fin[t].pc = "count"
    /\ fin' = [fin EXCEPT ![t].pc = "names", ![t].count = Len(deviceNamesList)]
    /\ UNCHANGED <<globals, timer, req, nreq, history>>

\* line 54: json.dumps(deviceNamesList, indent=2)
finalize_names(t) ==
    /\ Quiet
    /\ fin[t].pc = "names"
    /\ fin' = [fin EXCEPT ![t].pc = "iter", ![t].names = deviceNamesList]
    /\ UNCHANGED <<globals, timer, req, nreq, history>>

\* line 65: deviceMessages.items(): the iterator remembers the dict and its size
finalize_iter(t) ==
    /\ Quiet
    /\ fin[t].pc = "iter"
    /\ fin' = [fin EXCEPT ![t].pc = "next", ![t].size = Len(deviceMessages),
                          ![t].pos = 0, ![t].detached = FALSE]
    /\ UNCHANGED <<globals, timer, req, nreq, history>>

\* the dict the finalizer of timer t iterates
Iterated(t) == IF fin[t].detached THEN fin[t].old ELSE deviceMessages

\* lines 65-77: one step of the iteration: the next device with its messages,
\* the end of the loop, or RuntimeError (dictionary changed size during iteration)
finalize_next(t) ==
    /\ Quiet
    /\ fin[t].pc = "next"
    /\ IF Len(Iterated(t)) # fin[t].size
       THEN /\ fin' = [fin EXCEPT ![t] = Gone("aborted")]
            /\ timer' = Raised(t)
       ELSE /\ UNCHANGED timer
            /\ IF fin[t].pos = fin[t].size
               THEN fin' = [fin EXCEPT ![t].pc = "write"]
               ELSE fin' = [fin EXCEPT ![t].pos = @ + 1,
                                       ![t].out = Append(@, Iterated(t)[fin[t].pos + 1])]
    /\ UNCHANGED <<globals, req, nreq, history>>

\* mutant: the finalizer consumes the list it has written
consumed(names) == << >>

\* lines 82-87: what the finalizer leaves in deviceNamesList: it never clears it
kept(names) == names

\* the block the finalizer writes: both sections
block(t) == [count |-> fin[t].count, names |-> fin[t].names, messages |-> fin[t].out]

\* lines 82-87: append both sections to LOG_FILE; open() can fail (OSError)
finalize_write(t) ==
    /\ Quiet
    /\ fin[t].pc = "write"
    /\ \E ok \in BOOLEAN :
         IF ok
         THEN /\ logFile' = [exists |-> TRUE, blocks |-> Append(logFile.blocks, block(t))]
              /\ fin' = [fin EXCEPT ![t] = Gone("written")]
              /\ timer' = Returned(t)
              /\ req' = [w \in Workers |->
                           IF req[w].kind = "clear"
                           THEN [req[w] EXCEPT !.disturbed = TRUE] ELSE req[w]]
              /\ UNCHANGED hFail
         ELSE /\ fin' = [fin EXCEPT ![t] = Gone("raised")]
              /\ timer' = Raised(t)
              /\ hFail' = [valid |-> TRUE, by |-> t, names |-> deviceNamesList,
                           messages |-> deviceMessages,
                           blocks |-> Len(logFile.blocks)]
              /\ UNCHANGED <<logFile, req>>
    /\ deviceNamesList' = kept(deviceNamesList)
    /\ UNCHANGED <<deviceMessages, finalize_timer, nreq, hTimer, hAccepted, hOk,
                   hCleared, hQuiet>>

(* --------------------------- specifications --------------------------- *)

Step(ws, nameBodies, logBodies) ==
    \/ \E w \in ws, body \in nameBodies : write_deviceName_log_begin(w, body)
    \/ \E w \in ws : write_deviceName_log_loop(w)
    \/ \E w \in ws : write_deviceName_log_arm(w)
    \/ \E w \in ws : write_deviceName_log_start(w)
    \/ \E w \in ws, body \in logBodies : write_log_begin(w, body)
    \/ \E w \in ws : write_log_check(w)
    \/ \E w \in ws : write_log_create(w)
    \/ \E w \in ws : write_log_append(w)
    \/ \E w \in ws : clear_logs_begin(w)
    \/ \E w \in ws : clear_logs_remove(w)
    \/ \E w \in ws : clear_logs_names(w)
    \/ \E w \in ws : clear_logs_messages(w)
    \/ \E w \in ws : read(w)
    \/ \E w \in ws : respond(w)
    \/ \E t \in Timers : timer_fire(t)
    \/ \E t \in Timers : timer_cancelled(t)
    \/ \E t \in Timers : finalize_guard(t)
    \/ \E t \in Timers : finalize_count(t)
    \/ \E t \in Timers : finalize_names(t)
    \/ \E t \in Timers : finalize_iter(t)
    \/ \E t \in Timers : finalize_next(t)
    \/ \E t \in Timers : finalize_write(t)
    \/ Tick

\* requests handled concurrently, on two worker threads
Next == Step(Workers, FewNameBodies, FewLogBodies)
Spec == Init /\ [][Next]_vars

\* requests handled one after the other; the timer threads run beside them
NextSeq == Step({"w1"}, NameBodies, LogBodies)
SpecSeq == Init /\ [][NextSeq]_vars

\* the steps of the thread of timer t: its wait and the function it calls
TimerThread(t) ==
    \/ timer_fire(t)
    \/ timer_cancelled(t)
    \/ finalize_guard(t)
    \/ finalize_count(t)
    \/ finalize_names(t)
    \/ finalize_iter(t)
    \/ finalize_next(t)
    \/ finalize_write(t)

\* the steps of a handler that has taken its request in
Handler(w) ==
    \/ write_deviceName_log_loop(w)
    \/ write_deviceName_log_arm(w)
    \/ write_deviceName_log_start(w)
    \/ write_log_check(w)
    \/ write_log_create(w)
    \/ write_log_append(w)
    \/ clear_logs_remove(w)
    \/ clear_logs_names(w)
    \/ clear_logs_messages(w)
    \/ respond(w)

\* SpecSeq with a fair scheduler: time passes, every started thread (timer
\* thread or handler) keeps running; whether a request arrives is not fair.
\* A timer thread that can run is held back only while a response is being
\* sent (Quiet), so a thread the scheduler keeps running is one that runs
\* whenever it can again and again: strong fairness.
FairSeq ==
    /\ SpecSeq
    /\ SF_vars(Tick)
    /\ \A t \in Timers : SF_vars(TimerThread(t))
    /\ WF_vars(Handler("w1"))

(* ============================= the claims ============================= *)

PendingTimers == { t \in Timers : Pending(t) }

\* C1 (as stated): in every reachable state, whatever the interleaving of
\* concurrent POST /log_deviceNames requests, at most one finalize timer is
\* pending (started, not cancelled, not yet fired).
C1_AtMostOnePending == Cardinality(PendingTimers) <= 1

\* the finalizer of timer t is running
Finalizing(t) == fin[t].pc \in {"guard", "count", "names", "iter", "next", "write"}

\* the function of timer t has been called (it runs, or it has ended)
Fired(t) == fin[t].pc # "none"

\* C2: when POST /log_deviceNames requests are processed one after the other,
\* a timer that a later request replaces before its delay has elapsed never
\* calls the finalizer, the timer that does call it has waited exactly
\* FINALIZE_DELAY since the request that armed it, and no two timers are
\* pending together: two requests less than FINALIZE_DELAY apart give one
\* run of the finalizer, FINALIZE_DELAY after the second.
C2_OneFireAfterSecond ==
    /\ \A t \in Timers : hTimer[t].cancelled = "early" => ~Fired(t)
    /\ \A t \in Timers : Finalizing(t) => timer[t].waited = FINALIZE_DELAY
    /\ Cardinality(PendingTimers) <= 1

\* C2 witness: the first timer was replaced early and its thread has ended
\* without a run, the second has waited out its delay and runs the finalizer.
C2_Witness ==
    \E t1, t2 \in Timers :
        /\ hTimer[t1].cancelled = "early" /\ timer[t1].state = "done" /\ ~Fired(t1)
        /\ hTimer[t2].cancelled = "no" /\ Finalizing(t2)
        /\ finalize_timer = t2

\* C3: once a handler has called cancel() on a timer that has not entered
\* its function, the timer never enters it.
C3_CancelledNeverFires ==
    [][\A t \in Timers :
          (hTimer[t].cancelled # "no" /\ timer[t].state # "running")
              => timer'[t].state # "running"]_vars

\* C3 witness: a timer cancelled while waiting has ended without a run.
C3_Witness ==
    \E t \in Timers :
        hTimer[t].cancelled = "early" /\ timer[t].state = "done" /\ ~Fired(t)

\* the handler on worker w has answered 200 to a request of the given kind
Answered(w, kind) ==
    req[w].pc = "respond" /\ req[w].kind = kind /\ req[w].status = 200

\* the elements of a batch that are non-empty after trimming, trimmed, in order
Admitted(batch) ==
    SelectSeq([i \in 1..Len(batch) |-> strip(batch[i])], LAMBDA x : x # EmptyStr)

\* C4: a POST /log_deviceNames carrying a batch of strings, processed on its
\* own, leaves deviceNamesList equal to the list it found followed by the
\* trimmed forms of the batch's elements that are non-empty after trimming,
\* in order, and answers with the length of the new list; ["foo", " ", "bar",
\* ""] on an empty list gives count 2 and the list ["foo", "bar"].
C4_AppendDeviceNames ==
    \A w \in Workers :
        Answered(w, "names") =>
            /\ deviceNamesList = req[w].preNames \o Admitted(req[w].body.data)
            /\ req[w].result = Len(deviceNamesList)
            /\ (req[w].body.data = <<Foo, Blank, BarPadded, EmptyStr>>
                    /\ req[w].preNames = << >>)
                 => (req[w].result = 2 /\ deviceNamesList = <<Foo, Bar>>)

\* C4 witness: the batch of the scenario has been answered, on a list that
\* held a name already.
C4_Witness ==
    \E w \in Workers :
        /\ Answered(w, "names")
        /\ req[w].body.data = <<Foo, Blank, BarPadded, EmptyStr>>
        /\ req[w].preNames = <<Foo>>
        /\ deviceNamesList = <<Foo, Foo, Bar>>

\* the extraction rules, in priority order: the path of the field each reads
Rules == << <<"pv">>, <<"obj">>, <<"update", "pv">>, <<"update", "obj">> >>

Present(data, path) ==
    IF Len(path) = 1 THEN path[1] \in DOMAIN data
    ELSE path[1] \in DOMAIN data /\ path[2] \in DOMAIN data[path[1]]

ValueAt(data, path) ==
    IF Len(path) = 1 THEN data[path[1]] ELSE data[path[1]][path[2]]

\* the value of the first rule whose field is present, None when there is none
FirstMatch(data) ==
    IF \E i \in 1..Len(Rules) : Present(data, Rules[i])
    THEN ValueAt(data, Rules[CHOOSE i \in 1..Len(Rules) :
                              /\ Present(data, Rules[i])
                              /\ \A j \in 1..(i - 1) : ~Present(data, Rules[j])])
    ELSE None

\* dm with message m appended to the sequence of device d, created if absent
WithMessage(dm, d, m) ==
    SetItem(dm, d, Append(IF HasKey(dm, d) THEN Lookup(dm, d) ELSE << >>, m))

Payload(w) == IF "data" \in DOMAIN req[w].body THEN req[w].body.data ELSE EmptyDict

\* C5 (as stated): the message of a POST /log is aggregated under the value
\* of the first rule whose field is present, and a message is appended
\* exactly when an identifier was derived.
C5_AggregatedWhenDerived ==
    \A w \in Workers :
        Answered(w, "log") =>
            LET id == FirstMatch(Payload(w))
            IN IF id # None
               THEN deviceMessages = WithMessage(req[w].preMsgs, id, req[w].message_obj)
               ELSE deviceMessages = req[w].preMsgs

\* C5 (amended): the message of a POST /log, processed on its own, is
\* aggregated under the value of the first rule whose field is present when
\* that value is a non-empty string, and deviceMessages is left as it was
\* when no field is present or that value is empty (no later rule is tried).
C5_AggregatedWhenNonEmpty ==
    \A w \in Workers :
        Answered(w, "log") =>
            LET id == FirstMatch(Payload(w))
            IN IF id # None /\ id # ""
               THEN deviceMessages = WithMessage(req[w].preMsgs, id, req[w].message_obj)
               ELSE deviceMessages = req[w].preMsgs

\* C5 witness: {pv: "A", obj: "B"} has been stored under "A", after an
\* earlier message of that device.
C5_Witness ==
    \E w \in Workers :
        /\ Answered(w, "log")
        /\ Payload(w) = [pv |-> "A", obj |-> "B"]
        /\ HasKey(deviceMessages, "A")
        /\ Len(Lookup(deviceMessages, "A")) = 2
        /\ ~HasKey(deviceMessages, "B")

IsPrefix(s, t) == Len(s) <= Len(t) /\ s = SubSeq(t, 1, Len(s))

\* C6 (as stated): for every device, the sequence a read of deviceMessages
\* sees is a prefix of the sequence of messages appended for that device
\* since the last reset, in append order: nothing missing, duplicated or
\* reordered.
C6_ReadsSeeArrivalOrder ==
    LET seen == get_device_messages_response.deviceMessages
    IN \A i \in 1..Len(seen) : IsPrefix(seen[i].msgs, hAccepted[seen[i].key])

\* the messages stored for device d
Stored(d) == IF HasKey(deviceMessages, d) THEN Lookup(deviceMessages, d) ELSE << >>

\* C7 (as stated): with no reset, once the POST /log requests have returned,
\* each device holds as many messages as requests that answered success
\* for it.
C7_NoLostUpdate ==
    (~hCleared /\ \A w \in Workers : req[w].pc = "idle")
        => \A d \in Devices : Len(Stored(d)) = hOk[d]

\* C8 (as stated): in every state a reader can observe, every key of
\* deviceMessages maps to a non-empty sequence.
C8_KeysNonEmpty ==
    LET seen == get_device_messages_response.deviceMessages
    IN \A i \in 1..Len(seen) : seen[i].msgs # << >>

\* C9 (as stated): a finalize timer is pending only while deviceNamesList is
\* non-empty.
C9_PendingOnlyNonEmpty ==
    \A t \in Timers : Pending(t) => deviceNamesList # << >>

\* C9 (amended): a finalize timer armed while deviceNamesList was non-empty
\* is pending only while the list is non-empty, until a DELETE /logs resets
\* the list; a timer armed by a request that left the list empty, or one
\* that a DELETE /logs has overtaken, can be pending while the list is empty.
C9_PendingNonEmptyUnlessReset ==
    \A t \in Timers :
        (Pending(t) /\ hTimer[t].armed = "nonempty") => deviceNamesList # << >>

\* C9 witness: a timer armed on a non-empty list is pending beside a
\* finalizer that has written its block.
C9_Witness ==
    \E t, u \in Timers :
        /\ Pending(t) /\ hTimer[t].armed = "nonempty"
        /\ fin[u].pc = "written"

\* C10 (as stated): when a timer fires with deviceNamesList non-empty, the
\* block the finalizer appends matches deviceNamesList and deviceMessages as
\* they were when the timer fired, also when POST requests run while the
\* finalizer executes (no DELETE /logs is involved).
C10_BlockMatchesFireTime ==
    \A t \in Timers :
        (~hCleared /\ fin[t].pc = "write" /\ fin[t].atFire.names # << >>) =>
            /\ block(t).names = fin[t].atFire.names
            /\ block(t).count = Len(fin[t].atFire.names)
            /\ block(t).messages = fin[t].atFire.messages

(* ------------------------------- C11 ---------------------------------- *)

\* a step of finalize_device_names_delayed on some timer thread
FinalizerStep == \E t \in Timers : Finalizing(t) /\ fin'[t] # fin[t]

\* a step of clear_logs that resets one of the two structures
ResetStep ==
    \E w \in Workers :
        /\ req[w].pc \in {"clear_names", "clear_messages"}
        /\ req'[w] # req[w]

\* an element that was in one of the two structures is no longer in it
Removes ==
    \/ ~IsPrefix(deviceNamesList, deviceNamesList')
    \/ \E d \in Devices : ~IsPrefix(Stored(d), Stored(d)')

\* C11: a step of the finalizer, whether it ends in a written block, in the
\* guard's return or in a failure, leaves deviceNamesList and deviceMessages
\* as they are, and the only steps that take an element out of either
\* structure are the resets of DELETE /logs.
C11_OnlyDeleteRemoves ==
    [][/\ FinalizerStep => UNCHANGED <<deviceNamesList, deviceMessages>>
       /\ Removes => ResetStep]_vars

\* the part of C11 that is about the finalizer alone
C11_FinalizerKeepsStore ==
    [][FinalizerStep => UNCHANGED <<deviceNamesList, deviceMessages>>]_vars

(* ------------------------------- C12 ---------------------------------- *)

\* C12 (as stated): when DELETE /logs has begun before a pending timer fires
\* and no batch arrives after it, the finalizer that timer runs is a no-op:
\* it returns on the guard and writes no block, however the steps of
\* clear_logs and of the finalizer interleave.
C12_ResetBeforeFireNoBlock ==
    \A t \in Timers :
        (Finalizing(t) /\ fin[t].atFire.quiet /\ hQuiet) => fin[t].pc = "guard"

(* ------------------------------- C13 ---------------------------------- *)

\* C13 (as stated): DELETE /logs resets the two structures as one step for
\* every other thread: there is no state in which deviceNamesList has been
\* reset and deviceMessages still holds its content from before the reset,
\* and none in which the log file has been removed and the structures are
\* not yet reset.
C13_ResetAtomic ==
    \A w \in Workers :
        /\ (req[w].pc = "clear_messages" /\ req[w].preMsgs # << >>) =>
               deviceMessages = << >>
        /\ (req[w].pc = "clear_names" /\ req[w].removed) =>
               (deviceNamesList = << >> /\ deviceMessages = << >>)

(* ------------------------------- C14 ---------------------------------- *)

\* C14: DELETE /logs is idempotent. Handled after the requests before it
\* have been answered, it always answers success and leaves both structures
\* empty and, unless a finalizer wrote a block while it ran, the log file
\* absent; so a second DELETE /logs, which starts from that state, answers
\* success too and ends in the same state as the first.
C14_ClearIdempotent ==
    \A w \in Workers :
        (req[w].kind = "clear" /\ req[w].pc = "respond") =>
            /\ req[w].status = 200
            /\ deviceNamesList = << >>
            /\ deviceMessages = << >>
            /\ ~req[w].disturbed => ~logFile.exists

\* a DELETE /logs has answered success on a store that an earlier
\* DELETE /logs had already emptied
C14_Witness ==
    \E w \in Workers : Answered(w, "clear") /\ req[w].again /\ nreq = MaxRequests

(* ------------------------------- C15 ---------------------------------- *)

\* worker w takes in a POST /log or a POST /log_deviceNames whose body is empty
TakesEmptyBody(w) ==
    /\ req[w].pc = "idle"
    /\ req'[w].pc # "idle"
    /\ req'[w].kind \in {"log", "names"}
    /\ req'[w].body = EmptyDict

C16_FailureLeavesNoTrace ==
    \A w \in Workers :
        (req[w].pc = "respond" /\ req[w].status = 500) =>
            /\ req[w].kind = "names" =>
                   /\ deviceNamesList = req[w].preNames
                   /\ finalize_timer # 0 => hTimer[finalize_timer].cancelled = "no"
            /\ req[w].kind = "log" => deviceMessages = req[w].preMsgs

(* ------------------------------- C17 ---------------------------------- *)

\* lines 104-113: the block POST /log formats for the log file
log_entry(body, timestamp) ==
    [label |-> get(body, "label", "UNKNOWN"),
     timestamp |-> timestamp,
     sessionId |-> get(body, "sessionId", "unknown"),
     data |-> get(body, "data", EmptyDict)]

\* C17 (as stated): when a POST /log answers success, the raw event is in
\* the log file as its last block, whether or not an identifier was derived.
C17_RawEventLogged ==
    \A w \in Workers :
        Answered(w, "log") =>
            /\ logFile.exists
            /\ logFile.blocks # << >>
            /\ \E ts \in 1..(MaxRequests + 1) :
                   logFile.blocks[Len(logFile.blocks)] = log_entry(req[w].body, ts)

(* ------------------------------- C18 ---------------------------------- *)

\* the log write of the finalizer of timer t fails in this step
WriteFails(t) == fin[t].pc = "write" /\ fin'[t].pc = "raised"

\* the log write of the finalizer of timer t succeeds in this step
WriteSucceeds(t) == fin[t].pc = "write" /\ fin'[t].pc = "written"

\* every name and every message of the store s is in the block b, in order
Includes(b, s) ==
    /\ IsPrefix(s.names, b.names)
    /\ \A i \in 1..Len(s.messages) :
           \E j \in 1..Len(b.messages) :
               /\ b.messages[j].key = s.messages[i].key
               /\ IsPrefix(s.messages[i].msgs, b.messages[j].msgs)

\* C18: when the log write of the finalizer fails, the finalizer ends there
\* and is not run again for that timer, deviceNamesList, deviceMessages and
\* the log file are as before, the failed timer is not pending and no timer
\* becomes pending by the failure; and the next finalizer that fires after
\* the failure and writes its block, with no DELETE /logs and no other
\* failure in between, writes a block that includes the store as it was when
\* the write failed.
C18_FailedWriteKeepsData ==
    [][\A t \in Timers :
          /\ WriteFails(t) =>
                 /\ UNCHANGED <<deviceNamesList, deviceMessages, logFile>>
                 /\ timer'[t].state = "done"
                 /\ \A u \in Timers : Pending(u)' => Pending(u)
          /\ fin[t].pc = "raised" => fin'[t].pc = "raised"
          /\ (/\ WriteSucceeds(t)
              /\ fin[t].atFire.fail.valid
              /\ hFail = fin[t].atFire.fail) =>
                 Includes(block(t), hFail)]_vars

\* after a failed log write a later batch has armed a timer again, and its
\* finalizer has appended a block with the names of the failed write
C18_Witness ==
    \E t \in Timers :
        /\ fin[t].pc = "written"
        /\ hFail.valid
        /\ hFail.by # t
        /\ fin[hFail.by].pc = "raised"
        /\ hFail.names # << >>
        /\ Len(logFile.blocks) > hFail.blocks
        /\ Includes(logFile.blocks[Len(logFile.blocks)], hFail)

(* ------------------------------- C19 ---------------------------------- *)

\* C19 (as stated): a block is computed from the store as it is at one
\* moment, whatever requests run while the finalizer reads: the count in
\* its header is the number of names in its names section, and the
\* finalizer never ends because deviceMessages changed while it was being
\* iterated.
C19_BlockFromOneState ==
    \A t \in Timers :
        /\ fin[t].pc = "write" => fin[t].count = Len(fin[t].names)
        /\ fin[t].pc # "aborted"

(* ------------------------------- C20 ---------------------------------- *)

\* the requests taken in so far are n, all are answered, and names are admitted
QuietWithNames(n) ==
    /\ nreq = n
    /\ deviceNamesList # << >>
    /\ \A w \in Workers : req[w].pc = "idle"

\* the log file holds a block with every admitted name, and no timer is pending
NamesWritten ==
    /\ \E i \in 1..Len(logFile.blocks) :
           IsPrefix(deviceNamesList, logFile.blocks[i].names)
    /\ PendingTimers = {}

\* C20 (as stated): under a fair scheduler, once names are admitted and the
\* requests before have been answered, with success or with an error, then
\* unless a further request arrives or the storage refuses the write, a block
\* with those names is eventually in the log file and no timer is pending.
C20_AdmittedEventuallyWritten ==
    \A n \in 0..MaxRequests :
        QuietWithNames(n) ~> (nreq # n \/ hFail.valid \/ NamesWritten)

====
